---- MODULE Spec2Model ----
(***************************************************************************)
(* A model of color-backtrace (src/src/lib.rs): frame classification, the  *)
(* frame filter pipeline, the renderer (print_trace, print_panic_info,     *)
(* Frame::print, print_source_if_avail) and the panic handler built by     *)
(* into_panic_handler.                                                     *)
(*                                                                         *)
(* A Rust `str` is modelled as the sequence of its UTF-8 bytes.  An ASCII  *)
(* character is the one-character string of that character; a byte of a    *)
(* multi-byte character is a token "xHH".  Option<T> is a sequence of      *)
(* length 0 (None) or 1 (Some).                                            *)
(***************************************************************************)
EXTENDS Integers, Sequences, FiniteSets, TLC

VARIABLES
    filters,          \* BacktracePrinter.filters: the ordered filter steps
    verbosity,        \* BacktracePrinter.verbosity
    lib_verbosity,    \* BacktracePrinter.lib_verbosity
    strip_function_hash, \* BacktracePrinter.strip_function_hash
    is_panic_handler, \* BacktracePrinter.is_panic_handler
    should_print_addresses, \* BacktracePrinter.should_print_addresses
    env_show_hidden,  \* the process environment: COLORBT_SHOW_HIDDEN
    overflow_checks,  \* the build: TRUE = arithmetic overflow panics (debug)
    frames,           \* the frames captured by the last print_trace call
    filtered_frames,  \* the working vector after the filter steps of that call
    filters_run,      \* how many filter steps that call ran
    out,              \* the sink as that call left it
    result,           \* how that call ended: "none", "ok", "err", "panic"
    lock,             \* out_stream_mutex: 0 = free, else the holding thread
    pc,               \* per thread: position inside the panic handler
    pending,          \* per thread: sink operations of its render still to do
    render_result,    \* per thread: what print_panic_info returned
    shared_out,       \* the handler's sink: the thread of each operation written, in order
    stderr,           \* standard error: the thread of each line written, in order
    subject,          \* the input of a single-function run (a name, a file)
    outcome           \* what the function did with it

vars == <<filters, verbosity, lib_verbosity, strip_function_hash, is_panic_handler,
          should_print_addresses, env_show_hidden, overflow_checks, frames, filtered_frames, filters_run,
          out, result, lock, pc, pending, render_result, shared_out,
          stderr, subject, outcome>>

-----------------------------------------------------------------------------
(* Bounds of the model.                                                    *)

MaxFrames == 3      \* longest captured trace
MaxFilters == 2     \* longest configured filter list
UsizeBits == 16     \* width the model gives usize (frame numbers stay far below)

-----------------------------------------------------------------------------
(* Option, str and usize helpers.                                          *)

None == <<>>
Some(x) == <<x>>
IsSome(o) == Len(o) = 1
Unwrap(o) == o[1]

\* str::starts_with on byte sequences
StartsWith(s, p) ==
    /\ Len(p) <= Len(s)
    /\ SubSeq(s, 1, Len(p)) = p

\* str::contains
Contains(s, p) ==
    \E k \in 0..(Len(s) - Len(p)) : SubSeq(s, k + 1, k + Len(p)) = p

UsizeModulus == 2 ^ UsizeBits

\* a - b on usize: the wrapped value, and whether the subtraction overflowed
SubUsize(a, b) ==
    [val |-> (a - b + UsizeModulus) % UsizeModulus, ovf |-> a < b]

-----------------------------------------------------------------------------
(* Frame classification: Frame::is_dependency_code, is_post_panic_code,    *)
(* is_runtime_init_code.  A frame is [n, name, lineno, filename].          *)

DependencySymPrefixes == {
    <<"s","t","d",":",":">>, <<"c","o","r","e",":",":">>, <<"b","a","c","k","t","r","a","c","e",":",":","b","a","c","k","t","r","a","c","e",":",":">>, <<"_","r","u","s","t","_","b","e","g","i","n","_","u","n","w","i","n","d">>,
    <<"c","o","l","o","r","_","t","r","a","c","e","b","a","c","k",":",":">>, <<"_","_","r","u","s","t","_">>, <<"_","_","_","r","u","s","t","_">>, <<"_","_","p","t","h","r","e","a","d">>, <<"_","m","a","i","n">>,
    <<"m","a","i","n">>, <<"_","_","s","c","r","t","_","c","o","m","m","o","n","_","m","a","i","n","_","s","e","h">>, <<"B","a","s","e","T","h","r","e","a","d","I","n","i","t","T","h","u","n","k">>, <<"_","s","t","a","r","t">>,
    <<"_","_","l","i","b","c","_","s","t","a","r","t","_","m","a","i","n">>, <<"s","t","a","r","t","_","t","h","r","e","a","d">> }

DependencyFilePrefixes == {
    <<"/","r","u","s","t","c","/">>, <<"s","r","c","/","l","i","b","s","t","d","/">>, <<"s","r","c","/","l","i","b","p","a","n","i","c","_","u","n","w","i","n","d","/">>, <<"s","r","c","/","l","i","b","t","e","s","t","/">> }

is_dependency_code(f) ==
    \/ /\ IsSome(f.name)
       /\ \E x \in DependencySymPrefixes : StartsWith(Unwrap(f.name), x)
    \/ /\ IsSome(f.filename)
       /\ \/ \E x \in DependencyFilePrefixes : StartsWith(Unwrap(f.filename), x)
          \/ Contains(Unwrap(f.filename), <<"/",".","c","a","r","g","o","/","r","e","g","i","s","t","r","y","/","s","r","c","/">>)

PostPanicSymPrefixes == {
    <<"_","r","u","s","t","_","b","e","g","i","n","_","u","n","w","i","n","d">>, <<"r","u","s","t","_","b","e","g","i","n","_","u","n","w","i","n","d">>, <<"c","o","r","e",":",":","r","e","s","u","l","t",":",":","u","n","w","r","a","p","_","f","a","i","l","e","d">>,
    <<"c","o","r","e",":",":","o","p","t","i","o","n",":",":","e","x","p","e","c","t","_","n","o","n","e","_","f","a","i","l","e","d">>, <<"c","o","r","e",":",":","p","a","n","i","c","k","i","n","g",":",":","p","a","n","i","c","_","f","m","t">>,
    <<"c","o","l","o","r","_","b","a","c","k","t","r","a","c","e",":",":","c","r","e","a","t","e","_","p","a","n","i","c","_","h","a","n","d","l","e","r">>, <<"s","t","d",":",":","p","a","n","i","c","k","i","n","g",":",":","b","e","g","i","n","_","p","a","n","i","c">>,
    <<"b","e","g","i","n","_","p","a","n","i","c","_","f","m","t">>, <<"b","a","c","k","t","r","a","c","e",":",":","c","a","p","t","u","r","e">> }

is_post_panic_code(f) ==
    IF IsSome(f.name)
    THEN \E x \in PostPanicSymPrefixes : StartsWith(Unwrap(f.name), x)
    ELSE FALSE

RuntimeInitSymPrefixes == {
    <<"s","t","d",":",":","r","t",":",":","l","a","n","g","_","s","t","a","r","t",":",":">>, <<"t","e","s","t",":",":","r","u","n","_","t","e","s","t",":",":","r","u","n","_","t","e","s","t","_","i","n","n","e","r",":",":">>,
    <<"s","t","d",":",":","s","y","s","_","c","o","m","m","o","n",":",":","b","a","c","k","t","r","a","c","e",":",":","_","_","r","u","s","t","_","b","e","g","i","n","_","s","h","o","r","t","_","b","a","c","k","t","r","a","c","e">> }

is_runtime_init_code(f) ==
    IF IsSome(f.name) /\ IsSome(f.filename)
    THEN \/ \E x \in RuntimeInitSymPrefixes : StartsWith(Unwrap(f.name), x)
         \/ /\ Unwrap(f.name) = <<"{","{","c","l","o","s","u","r","e","}","}">>
            /\ Unwrap(f.filename) = <<"s","r","c","/","l","i","b","t","e","s","t","/","l","i","b",".","r","s">>
    ELSE FALSE

-----------------------------------------------------------------------------
(* The filter pipeline.  The working vector Vec<&Frame> is a sequence of   *)
(* references into the captured frames `fs`; a reference is the frame's    *)
(* position in fs, which is also its number n (print_trace numbers the     *)
(* frames 1, 2, ... as it collects them).                                  *)

\* Iterator::rposition(is_post_panic_code) over v[1..i]: the 0-based index of the
\* last match, as an Option
RECURSIVE rposition_post_panic(_, _, _)
rposition_post_panic(fs, v, i) ==
    IF i = 0 THEN None
    ELSE IF is_post_panic_code(fs[v[i]]) THEN Some(i - 1)
         ELSE rposition_post_panic(fs, v, i - 1)

\* Iterator::position(is_runtime_init_code) over v[i..]: the 0-based index of the
\* first match, as an Option
RECURSIVE position_runtime_init(_, _, _)
position_runtime_init(fs, v, i) ==
    IF i > Len(v) THEN None
    ELSE IF is_runtime_init_code(fs[v[i]]) THEN Some(i - 1)
         ELSE position_runtime_init(fs, v, i + 1)

\* mutant: the cutoff taken as the 1-based position of the last post-panic frame
top_cutoff_off_by_one(rp) == IF IsSome(rp) THEN Unwrap(rp) + 1 ELSE 0

\* .map(|x| x + 2).unwrap_or(0)
top_cutoff_of(rp) == IF IsSome(rp) THEN Unwrap(rp) + 2 ELSE 0

\* .unwrap_or_else(|| frames.len())
bottom_cutoff_of(p, len) == IF IsSome(p) THEN Unwrap(p) ELSE len

\* frames.retain(|x| rng.contains(&x.n)) with rng = top_cutoff..=bottom_cutoff
retain_range(fs, v, top_cutoff, bottom_cutoff) ==
    LET InRng(r) == top_cutoff <= fs[r].n /\ fs[r].n <= bottom_cutoff
    IN  SelectSeq(v, InRng)

default_frame_filter(fs, v) ==
    CHOOSE kept \in
        {retain_range(fs, v, top_cutoff, bottom_cutoff) :
            top_cutoff \in {top_cutoff_of(rposition_post_panic(fs, v, Len(v)))},
            bottom_cutoff \in {bottom_cutoff_of(position_runtime_init(fs, v, 1), Len(v))}} :
        TRUE

\* The filter steps a printer can be configured with: the built-in one and two
\* callbacks a user can pass to add_frame_filter.  "retain" is the callback of
\* add_frame_filter's documentation, which only removes frames; "dup" pushes a
\* copy of the vector's first reference at its end, which the callback type
\* Fn(&mut Vec<&Frame>) permits and which leaves the vector out of order.
FilterNames == {"default", "retain", "dup"}

ApplyFilter(name, fs, v) ==
    CASE name = "default" -> default_frame_filter(fs, v)
      [] name = "retain" ->
            LET Keep(r) == /\ IsSome(fs[r].name)
                           /\ ~StartsWith(Unwrap(fs[r].name), <<"b","l","a","b","l","a">>)
            IN  SelectSeq(v, Keep)
      [] name = "dup" -> IF v = <<>> THEN v ELSE Append(v, v[1])

\* for filter in &self.filters { filter(&mut filtered_frames); }
RECURSIVE ApplyFilters(_, _, _)
ApplyFilters(fl, fs, v) ==
    IF fl = <<>> THEN v
    ELSE ApplyFilters(Tail(fl), fs, ApplyFilter(Head(fl), fs, v))

\* slice::sort_by_key(|x| x.n): a stable insertion sort
RECURSIVE InsertByN(_, _)
InsertByN(sorted, r) ==
    IF sorted = <<>> THEN <<r>>
    ELSE IF r < Head(sorted) THEN <<r>> \o sorted
         ELSE <<Head(sorted)>> \o InsertByN(Tail(sorted), r)

RECURSIVE SortByN(_)
SortByN(v) ==
    IF v = <<>> THEN <<>>
    ELSE InsertByN(SortByN(SubSeq(v, 1, Len(v) - 1)), v[Len(v)])

-----------------------------------------------------------------------------
(* The output sink (impl WriteColor).  A sink is [log, status, err, failAt]:*)
(* log holds every operation attempted on it, in order, with whether it    *)
(* succeeded; the failAt-th operation attempted fails with an I/O error    *)
(* (failAt = 0: the sink never fails).  status is how the code running on  *)
(* the sink stands: "ok" while it runs, "err" once a `?` has returned an   *)
(* Err to the caller, "panic" once it has panicked.                        *)

NewSink(failAt) == [log |-> <<>>, status |-> "ok", err |-> "none", failAt |-> failAt]

\* `out.op(..)` without `?`: the operation is attempted, and an error is dropped
EmitUnchecked(s, op) ==
    IF s.status # "ok" THEN s
    ELSE [s EXCEPT !.log = Append(@, [op |-> op, ok |-> Len(s.log) + 1 # s.failAt])]

\* `out.op(..)?`: the operation is attempted, and an error returns from the render
Emit(s, op) ==
    IF s.status # "ok" THEN s
    ELSE IF Len(s.log) + 1 = s.failAt
         THEN [s EXCEPT !.log = Append(@, [op |-> op, ok |-> FALSE]),
                        !.status = "err", !.err = "sink"]
         ELSE [s EXCEPT !.log = Append(@, [op |-> op, ok |-> TRUE])]

\* a panic raised by the code that runs on the sink
Panic(s) == IF s.status # "ok" THEN s ELSE [s EXCEPT !.status = "panic"]

\* an Err that does not come from the sink, returned with `?`
Fail(s, kind) == IF s.status # "ok" THEN s ELSE [s EXCEPT !.status = "err", !.err = kind]

-----------------------------------------------------------------------------
(* Verbosity: Minimal < Medium < Full (derived Ord).                       *)

Minimal == 0
Medium == 1
Full == 2
Verbosities == {Minimal, Medium, Full}

\* mutant: the handler's setting is used in every role
current_verbosity_of_handler(s) == s.verbosity

current_verbosity(s) == IF s.is_panic_handler THEN s.verbosity ELSE s.lib_verbosity

-----------------------------------------------------------------------------
(* Frame::print_source_if_avail.  `file` is what File::open(filename) finds*)
(* on disk: [open |-> "ok" | "notfound" | "denied", lines |-> F, bad |-> B]:*)
(* a file of F lines whose line B cannot be read (BufRead::lines yields an *)
(* Err for it, as for a line that is not valid UTF-8); B = 0: none.        *)

SnippetLines == 5       \* .take(5)
SnippetContext == 2     \* 2.min(lineno - 1)
U32Bits == 16           \* width the model gives u32 (line numbers stay far below)
U32Modulus == 2 ^ U32Bits

SubU32(a, b) == [val |-> (a - b + U32Modulus) % U32Modulus, ovf |-> a < b]

Min(a, b) == IF a <= b THEN a ELSE b

\* for (line, cur_line_no) in surrounding_src.zip(start_line..)
\* `line?` inside the writeln! arguments: an Err returns before the write
read_line(s, is_bad) == IF is_bad THEN Fail(s, "read") ELSE s

RECURSIVE PrintSnippetLines(_, _, _, _, _)
PrintSnippetLines(s, cur_line_no, last, lineno, bad) ==
    IF cur_line_no > last \/ s.status # "ok" THEN s
    ELSE LET s1 == IF cur_line_no = lineno
                   THEN Emit(Emit(read_line(Emit(s, <<"set_color", "selected_src_ln">>),
                                            cur_line_no = bad),
                                  <<"writeln", "src", cur_line_no, ">">>),
                             <<"reset">>)
                   ELSE Emit(read_line(s, cur_line_no = bad),
                             <<"writeln", "src", cur_line_no, "|">>)
         IN  PrintSnippetLines(s1, cur_line_no + 1, last, lineno, bad)

\* mutant: two lines of leading context are taken whatever the line number
start_line_context_unclamped(lineno) == SubU32(lineno, SnippetContext)

start_line_of(lineno) ==
    LET d == SubU32(lineno, 1)
        r == SubU32(lineno, Min(SnippetContext, d.val))
    IN  [val |-> r.val, ovf |-> d.ovf \/ r.ovf]

print_source_if_avail(f, file, s, oc) ==
    IF ~(IsSome(f.lineno) /\ IsSome(f.filename)) THEN s
    ELSE IF file.open = "notfound" THEN s
    ELSE IF file.open # "ok" THEN Fail(s, "source")
    ELSE LET lineno == Unwrap(f.lineno)
             start_line == start_line_of(lineno)
             skip == SubUsize(start_line.val, 1)
             \* .lines().skip(skip).take(5) yields the lines skip+1 .. skip+5 the file
             \* has; skip() drops the lines before them, readable or not
             last == Min(file.lines, skip.val + SnippetLines)
         IN  IF oc /\ (start_line.ovf \/ skip.ovf) THEN Panic(s)
             ELSE PrintSnippetLines(s, start_line.val, start_line.val + (last - skip.val) - 1,
                                    lineno, file.bad)

-----------------------------------------------------------------------------
(* Frame::print.                                                           *)

HashSuffixLen == 19     \* "::h" and 16 hexadecimal digits
HashDigits == 16

HexDigits == {"0","1","2","3","4","5","6","7","8","9",
              "a","b","c","d","e","f","A","B","C","D","E","F"}

\* the bytes 0x80..0xBF that continue a multi-byte character
ContinuationBytes == {"xA9", "x82", "xAC"}

\* str::is_char_boundary, index counted from 0
is_char_boundary(name, i) ==
    \/ i = 0
    \/ i = Len(name)
    \/ i < Len(name) /\ name[i + 1] \notin ContinuationBytes

\* &name[a..b]: None when the slice panics
Slice(name, a, b) ==
    IF a <= b /\ b <= Len(name) /\ is_char_boundary(name, a) /\ is_char_boundary(name, b)
    THEN Some(SubSeq(name, a + 1, b))
    ELSE None

\* has_hash_suffix: Some(bool), or None when a slice panics
has_hash_suffix(name) ==
    IF ~(Len(name) > HashSuffixLen) THEN Some(FALSE)
    ELSE LET marker == Slice(name, Len(name) - HashSuffixLen, Len(name) - HashDigits)
         IN  IF ~IsSome(marker) THEN None
             ELSE IF Unwrap(marker) # <<":",":","h">> THEN Some(FALSE)
             ELSE LET digits == Slice(name, Len(name) - HashDigits, Len(name))
                  IN  IF ~IsSome(digits) THEN None
                      ELSE Some(\A i \in 1..Len(Unwrap(digits)) :
                                    Unwrap(digits)[i] \in HexDigits)

frame_print(f, i, file, s0, p, oc) ==
    LET dep == is_dependency_code(f)
        s1 == Emit(s0, <<"write", "index", i>>)
        \* module_info() is None without the resolve-modules feature
        s2 == IF p.should_print_addresses THEN Emit(s1, <<"write", "address", f.ip>>) ELSE s1
        name == IF IsSome(f.name) THEN Unwrap(f.name) ELSE <<"<","u","n","k","n","o","w","n",">">>
        hhs == has_hash_suffix(name)
        s3 == IF ~IsSome(hhs) THEN Panic(s2)
              ELSE Emit(s2, <<"set_color", IF dep THEN "dependency_code" ELSE "crate_code">>)
        s4 == IF ~IsSome(hhs) THEN s3
              ELSE IF Unwrap(hhs)
              THEN LET a == Emit(s3, <<"write", "name",
                                       SubSeq(name, 1, Len(name) - HashSuffixLen)>>)
                   IN  IF p.strip_function_hash THEN Emit(a, <<"writeln", "name", <<>>>>)
                       ELSE Emit(Emit(a, <<"set_color", IF dep THEN "dependency_code_hash"
                                                               ELSE "crate_code_hash">>),
                                 <<"writeln", "name",
                                   SubSeq(name, Len(name) - HashSuffixLen + 1, Len(name))>>)
              ELSE Emit(s3, <<"writeln", "name", name>>)
        s5 == Emit(s4, <<"reset">>)
        s6 == Emit(s5, <<"writeln", "at", f.filename, f.lineno>>)
    IN  IF current_verbosity(p) >= Full THEN print_source_if_avail(f, file, s6, oc) ELSE s6

-----------------------------------------------------------------------------
(* BacktracePrinter::print_trace.  `p` is the printer (&self), `fs` the    *)
(* frames of the trace numbered 1.., `env` the value of COLORBT_SHOW_HIDDEN*)
(* (an Option), `oc` whether the build checks arithmetic overflow.         *)

\* what File::open finds for the source files the model's frames name
Disk(filename) ==
    IF filename = <<"s","r","c","/","m","a","i","n",".","r","s">> THEN [open |-> "ok", lines |-> 4, bad |-> 0]
    ELSE IF filename = <<"/","r","o","o","t","/","l","i","b",".","r","s">> THEN [open |-> "denied", lines |-> 0, bad |-> 0]
    ELSE IF filename = <<"s","r","c","/","l","a","t","i","n","1",".","r","s">> THEN [open |-> "ok", lines |-> 6, bad |-> 1]
    ELSE [open |-> "notfound", lines |-> 0, bad |-> 0]

FileOf(f) == IF IsSome(f.filename) THEN Disk(Unwrap(f.filename))
             ELSE [open |-> "notfound", lines |-> 0, bad |-> 0]

\* mutant: only the value the panic message advertises is recognised
ShowHiddenOnlyOne(env) == env = Some("1")

\* Some("1") | Some("on") | Some("y")
ShowHidden(env) == env \in {Some("1"), Some("on"), Some("y")}

\* macro print_hidden!
print_hidden(s, n) ==
    Emit(Emit(Emit(s, <<"set_color", "frames_omitted_msg">>),
              <<"writeln", "hidden", n, IF n = 1 THEN "" ELSE "s">>),
         <<"reset">>)

\* for frame in &filtered_frames { ... }, from position k on
RECURSIVE PrintFrames(_, _, _, _, _, _, _)
PrintFrames(s, fs, v, k, last_n, p, oc) ==
    IF k > Len(v) \/ s.status # "ok" THEN s
    ELSE LET frame == fs[v[k]]
             d1 == SubUsize(frame.n, last_n)
             frame_delta == SubUsize(d1.val, 1)
         IN  IF oc /\ (d1.ovf \/ frame_delta.ovf) THEN Panic(s)
             ELSE LET s1 == IF frame_delta.val # 0 THEN print_hidden(s, frame_delta.val)
                            ELSE s
                      s2 == frame_print(frame, frame.n, FileOf(frame), s1, p, oc)
                  IN  PrintFrames(s2, fs, v, k + 1, frame.n, p, oc)

\* mutant: the early return on an empty vector is missing
is_empty_unchecked(v) == FALSE

\* filtered_frames.is_empty()
is_empty(v) == v = <<>>

\* mutant: the trailing banner is also written when nothing is hidden at the end
has_trailing_gap_inclusive(last_filtered_n, last_unfiltered_n) ==
    last_filtered_n <= last_unfiltered_n

\* if last_filtered_n < last_unfiltered_n
has_trailing_gap(last_filtered_n, last_unfiltered_n) == last_filtered_n < last_unfiltered_n

print_trace(p, fs, env, s0, oc) ==
    LET s1 == Emit(s0, <<"writeln", "backtrace_header">>)
        all == [i \in 1..Len(fs) |-> i]
        run == IF ShowHidden(env) THEN 0 ELSE Len(p.filters)
        filtered == IF ShowHidden(env) THEN all ELSE ApplyFilters(p.filters, fs, all)
    IN  IF s1.status # "ok"
        THEN [out |-> s1, filtered_frames |-> <<>>, filters_run |-> 0]
        ELSE IF is_empty(filtered)
        THEN [out |-> Emit(s1, <<"writeln", "empty_backtrace">>),
              filtered_frames |-> filtered, filters_run |-> run]
        ELSE LET sorted == SortByN(filtered)
                 s2 == PrintFrames(s1, fs, sorted, 1, 0, p, oc)
                 \* filtered_frames.last().unwrap() and frames.last().unwrap()
                 s3 == IF sorted = <<>> \/ fs = <<>> THEN Panic(s2)
                       ELSE LET last_filtered_n == fs[sorted[Len(sorted)]].n
                                last_unfiltered_n == fs[Len(fs)].n
                            IN  IF has_trailing_gap(last_filtered_n, last_unfiltered_n)
                                THEN print_hidden(s2, last_unfiltered_n - last_filtered_n)
                                ELSE s2
             IN  [out |-> s3, filtered_frames |-> filtered, filters_run |-> run]

-----------------------------------------------------------------------------
(* BacktracePrinter::print_panic_info.  `pi` is the PanicInfo:             *)
(* [payload |-> "String" | "str" | "other", location |-> an Option];       *)
(* `fs` is what backtrace::Backtrace::new() captures if it is called.      *)

\* mutant: the snippet hint is given only when a trace is shown
snippet_hint_with_trace_only(v) == v = Medium

\* if self.current_verbosity() <= Verbosity::Medium
snippet_hint(v) == v <= Medium

print_panic_info(p, pi, fs, env, s0, oc) ==
    LET a1 == Emit(s0, <<"set_color", "header">>)
        a2 == Emit(a1, <<"writeln", "message", p.message>>)
        a3 == Emit(a2, <<"reset">>)
        payload == IF pi.payload \in {"String", "str"} THEN "payload"
                   ELSE "<non string panic payload>"
        b1 == Emit(a3, <<"write", "Message:  ">>)
        b2 == Emit(b1, <<"set_color", "msg_loc_prefix">>)
        b3 == Emit(b2, <<"writeln", "payload", payload>>)
        b4 == Emit(b3, <<"reset">>)
        c1 == Emit(b4, <<"write", "Location: ">>)
        c2 == IF IsSome(pi.location)
              THEN Emit(Emit(Emit(Emit(Emit(Emit(c1,
                        <<"set_color", "src_loc">>),
                        <<"write", "loc_file">>),
                        <<"set_color", "src_loc_separator">>),
                        <<"write", ":">>),
                        <<"set_color", "src_loc">>),
                        <<"writeln", "loc_line">>)
              ELSE Emit(c1, <<"writeln", "<unknown>">>)
        c3 == IF IsSome(pi.location) THEN Emit(c2, <<"reset">>) ELSE c2
        d1 == IF current_verbosity(p) = Minimal
              THEN Emit(Emit(Emit(Emit(c3,
                        <<"write", "Backtrace omitted. Run with ">>),
                        <<"set_color", "env_var">>),
                        <<"write", "RUST_BACKTRACE=1">>),
                        <<"reset">>)
              ELSE Emit(Emit(Emit(Emit(c3,
                        <<"write", "Run with ">>),
                        <<"set_color", "env_var">>),
                        <<"write", "COLORBT_SHOW_HIDDEN=1">>),
                        <<"reset">>)
        d2 == IF current_verbosity(p) = Minimal
              THEN Emit(d1, <<"writeln", " environment variable to display it.">>)
              ELSE Emit(d1, <<"writeln", " environment variable to disable frame filtering.">>)
        e1 == IF snippet_hint(current_verbosity(p))
              THEN Emit(Emit(Emit(Emit(Emit(d2,
                        <<"write", "Run with ">>),
                        <<"set_color", "env_var">>),
                        <<"write", "RUST_BACKTRACE=full">>),
                        <<"reset">>),
                        <<"writeln", " to include source snippets.">>)
              ELSE d2
    IN  IF current_verbosity(p) >= Medium /\ e1.status = "ok"
        THEN print_trace(p, fs, env, e1, oc)
        ELSE [out |-> e1, filtered_frames |-> <<>>, filters_run |-> 0]

-----------------------------------------------------------------------------
(* Inputs of the model: the symbols a captured trace can hold.             *)

SymUnresolved == [name |-> None, lineno |-> None, filename |-> None]

SymPostPanic == [name |-> Some(<<"r","u","s","t","_","b","e","g","i","n","_","u","n","w","i","n","d">>), lineno |-> Some(1),
                 filename |-> Some(<<"s","r","c","/","l","i","b","s","t","d","/","p","a","n","i","c","k","i","n","g",".","r","s">>)]
SymUser == [name |-> Some(<<"a","p","p",":",":","r","u","n">>), lineno |-> Some(2),
            filename |-> Some(<<"s","r","c","/","m","a","i","n",".","r","s">>)]
SymRuntimeInit == [name |-> Some(<<"s","t","d",":",":","r","t",":",":","l","a","n","g","_","s","t","a","r","t",":",":","{","{","c","l","o","s","u","r","e","}","}">>), lineno |-> Some(3),
                   filename |-> Some(<<"s","r","c","/","l","i","b","s","t","d","/","r","t",".","r","s">>)]
Symbols == {SymPostPanic, SymUser, SymRuntimeInit, SymUnresolved}

RECURSIVE SeqsUpTo(_, _)
SeqsUpTo(S, n) ==
    IF n = 0 THEN {<<>>}
    ELSE LET shorter == SeqsUpTo(S, n - 1)
         IN  shorter \cup {Append(q, x) : q \in {r \in shorter : Len(r) = n - 1}, x \in S}

\* .zip(1usize..).map(|((ip, sym), n)| Frame { .. })
MkFrames(syms) ==
    [i \in 1..Len(syms) |->
        [n |-> i, name |-> syms[i].name, lineno |-> syms[i].lineno,
         filename |-> syms[i].filename, ip |-> i]]

Traces == {MkFrames(q) : q \in SeqsUpTo(Symbols, MaxFrames)}

EnvValues == {None, Some("1"), Some("on"), Some("y"), Some("0")}

\* &self
Printer ==
    [message |-> "The application panicked (crashed).",
     verbosity |-> verbosity, lib_verbosity |-> lib_verbosity,
     strip_function_hash |-> strip_function_hash,
     is_panic_handler |-> is_panic_handler,
     should_print_addresses |-> should_print_addresses,
     filters |-> filters]

-----------------------------------------------------------------------------
(* Spec: a printer is configured with the builder functions and print_trace*)
(* is called on captured traces, in a process whose COLORBT_SHOW_HIDDEN    *)
(* changes between calls.                                                  *)

\* no handler is installed and no thread has panicked
HandlerIdle ==
    /\ lock = 0
    /\ pc = <<>>
    /\ pending = <<>>
    /\ render_result = <<>>
    /\ shared_out = <<>>
    /\ stderr = <<>>

NoCall ==
    /\ frames = <<>>
    /\ filtered_frames = <<>>
    /\ filters_run = 0
    /\ out = NewSink(0)
    /\ result = "none"

\* BacktracePrinter::default() with RUST_BACKTRACE and RUST_LIB_BACKTRACE unset
DefaultPrinter ==
    /\ filters = <<"default">>
    /\ verbosity = Minimal
    /\ lib_verbosity = Minimal
    /\ strip_function_hash = FALSE
    /\ is_panic_handler = FALSE
    /\ should_print_addresses = FALSE

Init ==
    /\ DefaultPrinter
    /\ env_show_hidden = None
    /\ overflow_checks \in BOOLEAN
    /\ NoCall
    /\ HandlerIdle
    /\ subject = None
    /\ outcome = None

NoCall_ ==
    /\ frames' = <<>>
    /\ filtered_frames' = <<>>
    /\ filters_run' = 0
    /\ out' = NewSink(0)
    /\ result' = "none"

add_frame_filter(filter) ==
    /\ result = "none"
    /\ Len(filters) < MaxFilters
    /\ filters' = Append(filters, filter)
    /\ NoCall_
    /\ UNCHANGED <<verbosity, lib_verbosity, strip_function_hash, is_panic_handler,
                   should_print_addresses, env_show_hidden, overflow_checks, lock, pc,
                   pending, render_result, shared_out, stderr, subject, outcome>>

clear_frame_filters ==
    /\ result = "none"
    /\ filters' = <<>>
    /\ NoCall_
    /\ UNCHANGED <<verbosity, lib_verbosity, strip_function_hash, is_panic_handler,
                   should_print_addresses, env_show_hidden, overflow_checks, lock, pc,
                   pending, render_result, shared_out, stderr, subject, outcome>>

\* the process environment changes (std::env::set_var / remove_var)
SetEnv(v) ==
    /\ result = "none"
    /\ env_show_hidden' = v
    /\ NoCall_
    /\ UNCHANGED <<filters, verbosity, lib_verbosity, strip_function_hash,
                   is_panic_handler, should_print_addresses, overflow_checks, lock, pc,
                   pending, render_result, shared_out, stderr, subject, outcome>>

\* One call is on record at a time: `result` is "none" between calls, and the
\* record of a call (frames, filtered_frames, filters_run, out, result) stands
\* until the caller goes on (Return).
PrintTrace(fs) ==
    LET r == print_trace(Printer, fs, env_show_hidden, NewSink(0), overflow_checks)
    IN  /\ frames' = fs
        /\ filtered_frames' = r.filtered_frames
        /\ filters_run' = r.filters_run
        /\ out' = r.out
        /\ result' = r.out.status
        /\ UNCHANGED <<filters, verbosity, lib_verbosity, strip_function_hash,
                       is_panic_handler, should_print_addresses, env_show_hidden,
                       overflow_checks, lock, pc, pending, render_result, shared_out,
                       stderr, subject, outcome>>

PrintTraceCall == result = "none" /\ \E fs \in Traces : PrintTrace(fs)

\* the caller goes on after a call; the call's record is dropped
Return ==
    /\ result # "none"
    /\ NoCall_
    /\ UNCHANGED <<filters, verbosity, lib_verbosity, strip_function_hash,
                   is_panic_handler, should_print_addresses, env_show_hidden,
                   overflow_checks, lock, pc, pending, render_result, shared_out,
                   stderr, subject, outcome>>

Next ==
    \/ \E filter \in FilterNames : add_frame_filter(filter)
    \/ clear_frame_filters
    \/ \E v \in EnvValues : SetEnv(v)
    \/ PrintTraceCall
    \/ Return

Spec == Init /\ [][Next]_vars

-----------------------------------------------------------------------------
(* SpecRender: print_panic_info and print_trace are called, by the handler *)
(* (is_panic_handler set) or directly, at every verbosity, on a sink that  *)
(* may fail at any of its first operations.                                *)

MaxRenderFrames == 2    \* longest trace rendered on a failing sink
MaxFailAt == 14         \* the latest sink operation that is made to fail

SymHashed == [name |-> Some(<<"a","p","p",":",":","f",":",":","h","0","1","2","3","4","5","6","7","8","9","a","b","c","d","e","f">>), lineno |-> Some(7),
              filename |-> None]
\* a frame whose source file exists but cannot be opened
SymDenied == [name |-> Some(<<"l","i","b",":",":","g">>), lineno |-> Some(1),
              filename |-> Some(<<"/","r","o","o","t","/","l","i","b",".","r","s">>)]

RenderSymbols == {SymUser, SymHashed, SymDenied}
RenderTraces == {MkFrames(q) : q \in SeqsUpTo(RenderSymbols, MaxRenderFrames)}

PanicInfos == {[payload |-> "String", location |-> Some("app.rs:42")],
               [payload |-> "other", location |-> None]}

InitRender ==
    /\ filters = <<"default">>
    /\ verbosity = Minimal
    /\ lib_verbosity = Minimal
    /\ strip_function_hash = FALSE
    /\ is_panic_handler \in BOOLEAN
    /\ should_print_addresses = FALSE
    /\ env_show_hidden = None
    /\ overflow_checks \in BOOLEAN
    /\ NoCall
    /\ HandlerIdle
    /\ subject = None
    /\ outcome = None

\* BacktracePrinter::verbosity
set_verbosity(v) ==
    /\ result = "none"
    /\ verbosity' = v
    /\ UNCHANGED <<filters, lib_verbosity, strip_function_hash, is_panic_handler,
                   should_print_addresses, env_show_hidden, overflow_checks, frames,
                   filtered_frames, filters_run, out, result, lock, pc, pending,
                   render_result, shared_out, stderr, subject, outcome>>

\* BacktracePrinter::lib_verbosity
set_lib_verbosity(v) ==
    /\ result = "none"
    /\ lib_verbosity' = v
    /\ UNCHANGED <<filters, verbosity, strip_function_hash, is_panic_handler,
                   should_print_addresses, env_show_hidden, overflow_checks, frames,
                   filtered_frames, filters_run, out, result, lock, pc, pending,
                   render_result, shared_out, stderr, subject, outcome>>

Record(fs, r) ==
    /\ frames' = fs
    /\ filtered_frames' = r.filtered_frames
    /\ filters_run' = r.filters_run
    /\ out' = r.out
    /\ result' = r.out.status
    /\ UNCHANGED <<filters, verbosity, lib_verbosity, strip_function_hash,
                   is_panic_handler, should_print_addresses, env_show_hidden,
                   overflow_checks, lock, pc, pending, render_result, shared_out,
                   stderr, subject, outcome>>

PrintPanicInfoOnSink ==
    /\ result = "none"
    /\ \E pi \in PanicInfos, fs \in RenderTraces, failAt \in 0..MaxFailAt :
          Record(fs, print_panic_info(Printer, pi, fs, env_show_hidden,
                                      NewSink(failAt), overflow_checks))

PrintTraceOnSink ==
    /\ result = "none"
    /\ \E fs \in RenderTraces, failAt \in 0..MaxFailAt :
          Record(fs, print_trace(Printer, fs, env_show_hidden,
                                 NewSink(failAt), overflow_checks))

NextRender ==
    \/ \E v \in Verbosities : set_verbosity(v)
    \/ \E v \in Verbosities : set_lib_verbosity(v)
    \/ PrintPanicInfoOnSink
    \/ PrintTraceOnSink
    \/ Return

SpecRender == InitRender /\ [][NextRender]_vars

-----------------------------------------------------------------------------
(* SpecHandler: the closure built by into_panic_handler (is_panic_handler  *)
(* set) or by create_panic_handler (not set) is the panic hook, and        *)
(* several threads panic.  A thread inside the closure writes its report   *)
(* to the shared sink one operation at a time.                             *)

MaxThreads == 2
MaxHandlerFailAt == 3   \* the latest sink operation a report can fail at

HandlerThreads == 1..MaxThreads

\* a frame whose name has a two-byte character 19 bytes before its end
SymNonAscii == [name |-> Some(<<"xC3","xA9",":",":","h","0","1","2","3","4","5","6","7","8","9","a","b","c","d","e">>), lineno |-> None,
                filename |-> None]

HandlerTraces == {MkFrames(<<>>), MkFrames(<<SymUser>>), MkFrames(<<SymNonAscii>>)}

InitHandler ==
    /\ filters = <<"default">>
    /\ verbosity \in Verbosities
    /\ lib_verbosity = Medium
    /\ strip_function_hash = FALSE
    /\ is_panic_handler = TRUE
    /\ should_print_addresses = FALSE
    /\ env_show_hidden = None
    /\ overflow_checks = FALSE
    /\ NoCall
    /\ lock = 0
    /\ pc = [t \in HandlerThreads |-> "running"]
    /\ pending = [t \in HandlerThreads |-> [n |-> 0, status |-> "none"]]
    /\ render_result = [t \in HandlerThreads |-> "none"]
    /\ shared_out = <<>>
    /\ stderr = <<>>
    /\ subject = None
    /\ outcome = None

PrinterAndCallUnchanged ==
    UNCHANGED <<filters, verbosity, lib_verbosity, strip_function_hash,
                is_panic_handler, should_print_addresses, env_show_hidden,
                overflow_checks, frames, filtered_frames, filters_run, out, result,
                subject, outcome>>

\* the thread panics and the runtime calls the hook
Panics(t) ==
    /\ pc[t] = "running"
    /\ pc' = [pc EXCEPT ![t] = "hook"]
    /\ UNCHANGED <<lock, pending, render_result, shared_out, stderr>>
    /\ PrinterAndCallUnchanged

\* mutant: the stream is not behind a mutex
mutex_unguarded(l) == TRUE

\* Mutex::lock returns once no other thread holds the mutex
mutex_free(l) == l = 0

\* let mut lock = out_stream_mutex.lock().unwrap();
Lock(t) ==
    /\ pc[t] = "hook"
    /\ mutex_free(lock)
    /\ lock' = t
    /\ pc' = [pc EXCEPT ![t] = "locked"]
    /\ UNCHANGED <<pending, render_result, shared_out, stderr>>
    /\ PrinterAndCallUnchanged

\* self.print_panic_info(pi, &mut *lock) starts: what it will attempt on the
\* sink, and how it will end, is fixed by the panic, the trace and the sink
Render(t) ==
    /\ pc[t] = "locked"
    /\ \E pi \in PanicInfos, fs \in HandlerTraces, failAt \in 0..MaxHandlerFailAt :
          LET r == print_panic_info(Printer, pi, fs, env_show_hidden,
                                    NewSink(failAt), overflow_checks)
          IN  pending' = [pending EXCEPT
                             ![t] = [n |-> Len(r.out.log), status |-> r.out.status]]
    /\ pc' = [pc EXCEPT ![t] = "writing"]
    /\ UNCHANGED <<lock, render_result, shared_out, stderr>>
    /\ PrinterAndCallUnchanged

\* the next sink operation of the report
Write(t) ==
    /\ pc[t] = "writing"
    /\ pending[t].n > 0
    /\ shared_out' = Append(shared_out, t)
    /\ pending' = [pending EXCEPT ![t].n = @ - 1]
    /\ UNCHANGED <<lock, pc, render_result, stderr>>
    /\ PrinterAndCallUnchanged

\* if let Err(e) = self.print_panic_info(..) { eprintln!(..) }
after_render(status) ==
    CASE status = "ok" -> "unlock"
      [] status = "err" -> "report"
      [] status = "panic" -> "panicked"

\* print_panic_info returns (or panics)
EndRender(t) ==
    /\ pc[t] = "writing"
    /\ pending[t].n = 0
    /\ render_result' = [render_result EXCEPT ![t] = pending[t].status]
    /\ pc' = [pc EXCEPT ![t] = after_render(pending[t].status)]
    /\ UNCHANGED <<lock, pending, shared_out, stderr>>
    /\ PrinterAndCallUnchanged

\* eprintln!("Error while printing panic: {:?}", e): one line on standard error
\* when the write to it succeeds; eprintln! panics when it fails (a broken pipe,
\* a full disk), and standard error is also the sink the crate installs by default
Report(t) ==
    /\ pc[t] = "report"
    /\ \E accepted \in BOOLEAN :
          /\ stderr' = IF accepted THEN Append(stderr, t) ELSE stderr
          /\ pc' = [pc EXCEPT ![t] = IF accepted THEN "unlock" ELSE "panicked"]
    /\ UNCHANGED <<lock, pending, render_result, shared_out>>
    /\ PrinterAndCallUnchanged

\* the closure returns and the guard is dropped
Unlock(t) ==
    /\ pc[t] = "unlock"
    /\ lock' = IF lock = t THEN 0 ELSE lock
    /\ pc' = [pc EXCEPT ![t] = "returned"]
    /\ UNCHANGED <<pending, render_result, shared_out, stderr>>
    /\ PrinterAndCallUnchanged

\* a panic raised inside the panic hook does not unwind out of the closure: the
\* runtime aborts the process, or runs the hook again on this thread, which
\* then blocks on the mutex it holds.  Either way the guard is never dropped.
PanicInHook(t) ==
    /\ pc[t] = "panicked"
    /\ pc' = [pc EXCEPT ![t] = "dead"]
    /\ UNCHANGED <<lock, pending, render_result, shared_out, stderr>>
    /\ PrinterAndCallUnchanged

NextHandler ==
    \E t \in HandlerThreads :
        \/ Panics(t)
        \/ Lock(t)
        \/ Render(t)
        \/ Write(t)
        \/ EndRender(t)
        \/ Report(t)
        \/ Unlock(t)
        \/ PanicInHook(t)

SpecHandler == InitHandler /\ [][NextHandler]_vars

-----------------------------------------------------------------------------
(* SpecName: Frame::print is called on one frame, for names with and       *)
(* without a hash suffix, ASCII and not.                                   *)

\* what can stand before the last 19 bytes of a name
NamePrefixes == {<<>>, <<"a">>, <<"xC3","xA9">>, <<"s","t","d",":",":","f">>, <<"a","p","p",":",":","xC3","xA9">>}
\* what can stand where the marker "::h" would
NameMarkers == {<<":",":","h">>, <<":",":","g">>, <<":",":",":">>, <<"xA9",":","h">>, <<"_","xC3","xA9">>}
\* what can stand where the 16 digits would
NameTails == {<<"0","1","2","3","4","5","6","7","8","9","a","b","c","d","e","f">>, <<"0","1","2","3","4","5","6","7","8","9","A","B","C","D","E","F">>, <<"0","1","2","3","4","5","6","7","F","E","D","C","b","a","9","8">>,
              <<"0","1","2","3","4","5","6","7","8","9","a","b","c","d","e","g">>, <<"0","1","2","3","4","5","xC3","xA9","7","8","9","a","b","c","d","e","f">>, <<"xA9","1","2","3","4","5","6","7","8","9","a","b","c","d","e","f">>,
              <<"1","2","3","4","5","6","7","8","9","a","b","c","d","e","f">>, <<"h","0","1","2","3","4","5","6","7","8","9","a","b","c","d","e","f">>, <<"0","1","2","3","4","5","6","7","8","9","a","b","c","d","e","xC3","xA9">>}

\* the bytes 0xC2..0xDF that start a two-byte character
LeadBytes == {"xC3"}

\* a byte sequence is a str only if it is valid UTF-8
IsUtf8(b) ==
    /\ \A i \in 1..Len(b) : b[i] \in LeadBytes => (i < Len(b) /\ b[i + 1] \in ContinuationBytes)
    /\ \A i \in 1..Len(b) : b[i] \in ContinuationBytes => (i > 1 /\ b[i - 1] \in LeadBytes)

Names == {n \in {p \o m \o t : p \in NamePrefixes, m \in NameMarkers, t \in NameTails} :
             IsUtf8(n)}
         \cup {<<"m","a","i","n">>, <<":",":","h","0","1","2","3","4","5","6","7","8","9","a","b","c","d","e","f">>}

NameSubjects ==
    {[n |-> 1, name |-> Some(nm), lineno |-> None, filename |-> None, ip |-> 1] : nm \in Names}
    \cup {[n |-> 1, name |-> None, lineno |-> None, filename |-> None, ip |-> 1]}

InitName ==
    /\ filters = <<"default">>
    /\ verbosity = Minimal
    /\ lib_verbosity = Minimal
    /\ strip_function_hash \in BOOLEAN
    /\ is_panic_handler = FALSE
    /\ should_print_addresses \in BOOLEAN
    /\ env_show_hidden = None
    /\ overflow_checks = FALSE
    /\ NoCall
    /\ HandlerIdle
    /\ subject \in {Some(f) : f \in NameSubjects}
    /\ outcome = None

FramePrint ==
    /\ outcome = None
    /\ outcome' = Some(frame_print(Unwrap(subject), Unwrap(subject).n,
                                   FileOf(Unwrap(subject)), NewSink(0), Printer,
                                   overflow_checks))
    /\ UNCHANGED <<filters, verbosity, lib_verbosity, strip_function_hash,
                   is_panic_handler, should_print_addresses, env_show_hidden,
                   overflow_checks, frames, filtered_frames, filters_run, out, result,
                   lock, pc, pending, render_result, shared_out, stderr, subject>>

NextName == FramePrint

SpecName == InitName /\ [][NextName]_vars

-----------------------------------------------------------------------------
(* SpecSnippet: Frame::print_source_if_avail is called on one frame, for   *)
(* every line number and file length within the bounds.                    *)

MaxLineno == 8
MaxFileLines == 8

SnippetFiles ==
    {[open |-> "ok", lines |-> fb[1], bad |-> fb[2]] :
        fb \in {x \in (0..MaxFileLines) \X (0..MaxFileLines) : x[2] <= x[1]}}
    \cup {[open |-> "notfound", lines |-> 0, bad |-> 0],
          [open |-> "denied", lines |-> 0, bad |-> 0]}

SnippetSubjects ==
    {[frame |-> [n |-> 1, name |-> Some(<<"a","p","p",":",":","r","u","n">>), lineno |-> Some(L),
                 filename |-> Some(<<"s","r","c","/","m","a","i","n",".","r","s">>), ip |-> 1],
      file |-> file] : L \in 0..MaxLineno, file \in SnippetFiles}
    \cup {[frame |-> [n |-> 1, name |-> Some(<<"a","p","p",":",":","r","u","n">>), lineno |-> None,
                      filename |-> Some(<<"s","r","c","/","m","a","i","n",".","r","s">>), ip |-> 1],
           file |-> [open |-> "ok", lines |-> MaxFileLines, bad |-> 0]]}

InitSnippet ==
    /\ filters = <<"default">>
    /\ verbosity = Full
    /\ lib_verbosity = Full
    /\ strip_function_hash = FALSE
    /\ is_panic_handler = FALSE
    /\ should_print_addresses = FALSE
    /\ env_show_hidden = None
    /\ overflow_checks \in BOOLEAN
    /\ NoCall
    /\ HandlerIdle
    /\ subject \in {Some(x) : x \in SnippetSubjects}
    /\ outcome = None

PrintSourceIfAvail ==
    /\ outcome = None
    /\ outcome' = Some(print_source_if_avail(Unwrap(subject).frame, Unwrap(subject).file,
                                             NewSink(0), overflow_checks))
    /\ UNCHANGED <<filters, verbosity, lib_verbosity, strip_function_hash,
                   is_panic_handler, should_print_addresses, env_show_hidden,
                   overflow_checks, frames, filtered_frames, filters_run, out, result,
                   lock, pc, pending, render_result, shared_out, stderr, subject>>

NextSnippet == PrintSourceIfAvail

SpecSnippet == InitSnippet /\ [][NextSnippet]_vars

-----------------------------------------------------------------------------
(* SpecSource: print_trace is called at Full verbosity on traces whose     *)
(* frames name source files that are readable, missing, not openable, or   *)
(* hold a line that cannot be read.                                        *)

MaxSourceFrames == 2    \* longest trace rendered with source snippets

\* a frame whose source file does not exist
SymMissing == [name |-> Some(<<"a","p","p",":",":","g","o","n","e">>), lineno |-> Some(3),
               filename |-> Some(<<"s","r","c","/","g","o","n","e",".","r","s">>)]
\* frames of a file whose first line cannot be read: the snippet of line 2
\* starts at line 1, the snippet of line 4 at line 2
SymBadShown == [name |-> Some(<<"a","p","p",":",":","o","l","d">>), lineno |-> Some(2),
                filename |-> Some(<<"s","r","c","/","l","a","t","i","n","1",".","r","s">>)]
SymBadSkipped == [name |-> Some(<<"a","p","p",":",":","o","l","d","e","r">>), lineno |-> Some(4),
                  filename |-> Some(<<"s","r","c","/","l","a","t","i","n","1",".","r","s">>)]

SourceSymbols == {SymUser, SymMissing, SymDenied, SymBadShown, SymBadSkipped}
SourceTraces == {MkFrames(q) : q \in SeqsUpTo(SourceSymbols, MaxSourceFrames)}

InitSource ==
    /\ filters = <<"default">>
    /\ verbosity = Full
    /\ lib_verbosity = Full
    /\ strip_function_hash \in BOOLEAN
    /\ is_panic_handler = FALSE
    /\ should_print_addresses \in BOOLEAN
    /\ env_show_hidden = None
    /\ overflow_checks \in BOOLEAN
    /\ NoCall
    /\ HandlerIdle
    /\ subject = None
    /\ outcome = None

PrintTraceWithSource ==
    /\ result = "none"
    /\ \E fs \in SourceTraces :
          Record(fs, print_trace(Printer, fs, env_show_hidden, NewSink(0), overflow_checks))

NextSource ==
    \/ PrintTraceWithSource
    \/ Return

SpecSource == InitSource /\ [][NextSource]_vars

-----------------------------------------------------------------------------
(* SpecEnv: BacktracePrinter::default() reads the verbosity levels from    *)
(* the environment.  A variable is None (unset) or Some of an OsString:    *)
(* [unicode |-> whether it is valid Unicode, text |-> its text].           *)

\* the values a variable is given
EnvTexts == {"", "0", "1", "full", "FULL", "Full", "full ", "ful"}
OsStrings == {[unicode |-> TRUE, text |-> t] : t \in EnvTexts}
             \cup {[unicode |-> FALSE, text |-> "\\xFF"]}
EnvVars == {None} \cup {Some(v) : v \in OsStrings}

\* env::var(name).ok(): Err(NotPresent) and Err(NotUnicode) both become None
env_var_ok(v) == IF IsSome(v) /\ Unwrap(v).unicode THEN Some(Unwrap(v).text) ELSE None

convert_env(env) ==
    IF IsSome(env) /\ Unwrap(env) = "full" THEN Full
    ELSE IF IsSome(env) THEN Medium
    ELSE Minimal

from_env(e) == convert_env(env_var_ok(e.RUST_BACKTRACE))

\* env::var("RUST_LIB_BACKTRACE").or_else(|_| env::var("RUST_BACKTRACE")).ok()
lib_from_env(e) ==
    convert_env(IF IsSome(env_var_ok(e.RUST_LIB_BACKTRACE))
                THEN env_var_ok(e.RUST_LIB_BACKTRACE)
                ELSE env_var_ok(e.RUST_BACKTRACE))

InitEnv ==
    /\ DefaultPrinter
    /\ env_show_hidden = None
    /\ overflow_checks = FALSE
    /\ NoCall
    /\ HandlerIdle
    /\ subject \in {Some([RUST_BACKTRACE |-> a, RUST_LIB_BACKTRACE |-> b]) :
                       a \in EnvVars, b \in EnvVars}
    /\ outcome = None

\* BacktracePrinter::default()
Default ==
    /\ outcome = None
    /\ verbosity' = from_env(Unwrap(subject))
    /\ lib_verbosity' = lib_from_env(Unwrap(subject))
    /\ outcome' = Some("default")
    /\ UNCHANGED <<filters, strip_function_hash, is_panic_handler,
                   should_print_addresses, env_show_hidden, overflow_checks, frames,
                   filtered_frames, filters_run, out, result, lock, pc, pending,
                   render_result, shared_out, stderr, subject>>

NextEnv == Default

SpecEnv == InitEnv /\ [][NextEnv]_vars

-----------------------------------------------------------------------------
(* SpecClassify: the three classification predicates are applied to one    *)
(* frame, for names and file names that are missing, match or do not.      *)

ClassifyNames ==
    {None, Some(<<"s","t","d",":",":","r","t",":",":","l","a","n","g","_","s","t","a","r","t",":",":","{","{","c","l","o","s","u","r","e","}","}">>),
     Some(<<"s","t","d",":",":","r","t",":",":","l","a","n","g","_","s","t","a","r","t",":",":","h","0","1","2","3","4","5","6","7","8","9","a","b","c","d","e","f">>),
     Some(<<"s","t","d",":",":","r","t",":",":","l","a","n","g","_","s","t","a","r","t">>),
     Some(<<"t","e","s","t",":",":","r","u","n","_","t","e","s","t",":",":","r","u","n","_","t","e","s","t","_","i","n","n","e","r",":",":","{","{","c","l","o","s","u","r","e","}","}">>),
     Some(<<"s","t","d",":",":","s","y","s","_","c","o","m","m","o","n",":",":","b","a","c","k","t","r","a","c","e",":",":","_","_","r","u","s","t","_","b","e","g","i","n","_","s","h","o","r","t","_","b","a","c","k","t","r","a","c","e">>),
     Some(<<"{","{","c","l","o","s","u","r","e","}","}">>), Some(<<"a","p","p",":",":","r","u","n",":",":","{","{","c","l","o","s","u","r","e","}","}">>), Some(<<"a","p","p",":",":","r","u","n">>),
     Some(<<"r","u","s","t","_","b","e","g","i","n","_","u","n","w","i","n","d">>), Some(<<"m","a","i","n">>)}

ClassifyFiles ==
    {None, Some(<<"s","r","c","/","l","i","b","t","e","s","t","/","l","i","b",".","r","s">>), Some(<<"s","r","c","/","l","i","b","t","e","s","t","/","l","i","b",".","r","s","x">>),
     Some(<<"s","r","c","/","l","i","b","s","t","d","/","r","t",".","r","s">>), Some(<<"s","r","c","/","m","a","i","n",".","r","s">>),
     Some(<<"/","r","u","s","t","c","/","a","b","c","/","s","r","c","/","l","i","b","s","t","d","/","r","t",".","r","s">>),
     Some(<<"/","h","o","m","e","/","u","/",".","c","a","r","g","o","/","r","e","g","i","s","t","r","y","/","s","r","c","/","x","/","l","i","b",".","r","s">>)}

ClassifySubjects ==
    {[n |-> 1, name |-> nm, lineno |-> ln, filename |-> fl, ip |-> 1] :
        nm \in ClassifyNames, fl \in ClassifyFiles, ln \in {None, Some(1)}}

InitClassify ==
    /\ DefaultPrinter
    /\ env_show_hidden = None
    /\ overflow_checks = FALSE
    /\ NoCall
    /\ HandlerIdle
    /\ subject \in {Some(f) : f \in ClassifySubjects}
    /\ outcome = None

Classify ==
    /\ outcome = None
    /\ outcome' = Some([dependency |-> is_dependency_code(Unwrap(subject)),
                        post_panic |-> is_post_panic_code(Unwrap(subject)),
                        runtime_init |-> is_runtime_init_code(Unwrap(subject))])
    /\ UNCHANGED <<filters, verbosity, lib_verbosity, strip_function_hash,
                   is_panic_handler, should_print_addresses, env_show_hidden,
                   overflow_checks, frames, filtered_frames, filters_run, out, result,
                   lock, pc, pending, render_result, shared_out, stderr, subject>>

NextClassify == Classify

SpecClassify == InitClassify /\ [][NextClassify]_vars

-----------------------------------------------------------------------------
(* SpecHandlerFair: the handler under fair scheduling.  A thread inside    *)
(* the hook keeps running: it takes the mutex if the mutex stays free, and *)
(* it takes its next step after that (weak fairness of its steps).  Every  *)
(* thread enters the hook at most once, so a free mutex stays free once the*)
(* other threads are through.  Whether a thread panics at all is left open.*)

\* the steps of a thread inside the closure, other than the render call
HandlerStep(t) ==
    \/ Lock(t)
    \/ Write(t)
    \/ EndRender(t)
    \/ Report(t)
    \/ Unlock(t)
    \/ PanicInHook(t)

\* self.print_panic_info(pi, &mut *lock) is entered once the guard is held:
\* the position change of Render(t), whatever the report turns out to be
RenderStarts(t) ==
    /\ pc[t] = "locked"
    /\ pc' = [pc EXCEPT ![t] = "writing"]

HandlerFairness ==
    \A t \in HandlerThreads :
        /\ WF_vars(HandlerStep(t))
        /\ WF_pc(RenderStarts(t))

SpecHandlerFair == InitHandler /\ [][NextHandler]_vars /\ HandlerFairness

-----------------------------------------------------------------------------
(* What a call wrote, read off the sink's log.                             *)

Ops(log) == [i \in 1..Len(log) |-> log[i].op]

IsIndexOp(e) == e.op[1] = "write" /\ e.op[2] = "index"
IsBannerOp(e) == e.op[1] = "writeln" /\ e.op[2] = "hidden"

\* the frame numbers rendered, in output order
RenderedNumbers(log) ==
    LET w == SelectSeq(log, IsIndexOp) IN [i \in 1..Len(w) |-> w[i].op[3]]

\* the counts shown in the hidden-frames banners, in output order
BannerCounts(log) ==
    LET w == SelectSeq(log, IsBannerOp) IN [i \in 1..Len(w) |-> w[i].op[3]]

RECURSIVE SumSeq(_)
SumSeq(q) == IF q = <<>> THEN 0 ELSE Head(q) + SumSeq(Tail(q))

Range(q) == {q[i] : i \in 1..Len(q)}

StrictlyIncreasing(q) == \A i \in 1..(Len(q) - 1) : q[i] < q[i + 1]

PostPanicNumbers == {i \in 1..Len(frames) : is_post_panic_code(frames[i])}
RuntimeInitNumbers == {i \in 1..Len(frames) : is_runtime_init_code(frames[i])}
MaxOf(S) == CHOOSE i \in S : \A j \in S : j <= i
MinOf(S) == CHOOSE i \in S : \A j \in S : i <= j

Affirmative == {Some("1"), Some("on"), Some("y")}

-----------------------------------------------------------------------------
C2_BannerCountsSumToHidden ==
    (result = "ok" /\ filtered_frames # <<>>) =>
        SumSeq(BannerCounts(out.log)) = Len(frames) - Cardinality(Range(filtered_frames))

(* C3: for every configured list of filter steps, the frame numbers        *)
(* print_trace renders, in output order, are a strictly increasing         *)
(* subsequence of 1..N: no frame is rendered twice and none out of order.  *)
C3_RenderedStrictlyIncreasing ==
    result # "none" =>
        /\ StrictlyIncreasing(RenderedNumbers(out.log))
        /\ Range(RenderedNumbers(out.log)) \subseteq 1..Len(frames)

(* C6: a print_trace call made while COLORBT_SHOW_HIDDEN is 1, on or y runs*)
(* no filter step and renders every captured frame; the variable is read   *)
(* by each call and the call leaves the stored filter list and the         *)
(* variable as they were, so a call made while the variable is not         *)
(* affirmative runs every configured filter step.                          *)
C6_ShowHiddenBypassesFiltersPerCall ==
    [][(result = "none" /\ result' # "none") =>
          /\ filters' = filters
          /\ env_show_hidden' = env_show_hidden
          /\ IF env_show_hidden \in Affirmative
             THEN /\ filters_run' = 0
                  /\ result' = "ok"
                  /\ RenderedNumbers(out'.log) = [i \in 1..Len(frames') |-> i]
             ELSE /\ filters_run' = Len(filters)
                  /\ filtered_frames' =
                        ApplyFilters(filters, frames', [i \in 1..Len(frames') |-> i])]_vars

C6_Witness ==
    /\ result = "ok" /\ env_show_hidden \in Affirmative
    /\ filters = <<"default">> /\ filters_run = 0
    /\ PostPanicNumbers # {}
    /\ RenderedNumbers(out.log) = [i \in 1..Len(frames) |-> i]

(* C7: when the filter steps leave no frame (also when no frame was        *)
(* captured), print_trace writes the section header and then the single    *)
(* line <empty backtrace>, no frame and no hidden-frames banner, and       *)
(* returns without panicking.                                              *)
C7_EmptyTracePlaceholder ==
    (result # "none" /\ filtered_frames = <<>>) =>
        /\ result = "ok"
        /\ Ops(out.log) = << <<"writeln", "backtrace_header">>,
                            <<"writeln", "empty_backtrace">> >>

C7_Witness ==
    /\ result = "ok" /\ frames # <<>> /\ filtered_frames = <<>>
    /\ Len(out.log) = 2

(* C4: with the handler installed, at most one thread at a time is inside  *)
(* print_panic_info: the lock is taken before a report's first write and   *)
(* held until its last, so the reports of threads that panic concurrently  *)
(* are contiguous blocks of the sink, never interleaved.                   *)
InHandler(t) == pc[t] \in {"locked", "writing", "report", "unlock", "panicked"}

C4_ReportsNeverInterleave ==
    /\ \A t1, t2 \in DOMAIN pc : (InHandler(t1) /\ InHandler(t2)) => t1 = t2
    /\ \A t \in DOMAIN pc : pc[t] = "writing" => lock = t
    \* once another thread's write follows a thread's write, that thread writes no more
    /\ \A i \in 1..(Len(shared_out) - 1) :
          shared_out[i] # shared_out[i + 1] =>
              \A k \in (i + 1)..Len(shared_out) : shared_out[k] # shared_out[i]

\* one thread is part-way through its report, after another thread's whole
\* report, while a third party to the lock would have to wait for it
C4_Witness ==
    \E t1, t2 \in DOMAIN pc :
        /\ t1 # t2
        /\ pc[t1] = "returned" /\ pc[t2] = "writing" /\ lock = t2
        /\ pending[t2].n > 0
        /\ Len(shared_out) > 4
        /\ shared_out[1] = t1 /\ shared_out[Len(shared_out)] = t2

(* C5: when rendering fails inside the installed handler the failure is    *)
(* caught there: exactly one diagnostic line goes to standard error, the   *)
(* handler returns normally and raises no new panic.                       *)
LinesOf(t) == Len(SelectSeq(stderr, LAMBDA x : x = t))

C5_RenderErrorIsCaughtAndReported ==
    \A t \in DOMAIN pc :
        render_result[t] = "err" =>
            /\ pc[t] \in {"report", "unlock", "returned"}
            /\ LinesOf(t) = IF pc[t] = "report" THEN 0 ELSE 1

(* C8: in print_panic_info and print_trace (and the per-frame printing they*)
(* call) the first sink operation that fails ends the render: the error is *)
(* returned to the caller, no sink operation is attempted after it and     *)
(* none is retried.                                                        *)
C8_FirstSinkFailureEndsRender ==
    result # "none" =>
        /\ \A i \in 1..Len(out.log) :
              ~out.log[i].ok => (i = Len(out.log) /\ result = "err" /\ out.err = "sink")
        /\ (out.failAt \in 1..Len(out.log)) => ~out.log[out.failAt].ok

C8_Witness ==
    /\ result = "err" /\ out.err = "sink"
    /\ Len(out.log) = MaxFailAt
    /\ ~out.log[Len(out.log)].ok
    /\ \E i \in 1..Len(out.log) : IsIndexOp(out.log[i])

(* C9: Frame::print splits a name exactly when it is longer than 19        *)
(* characters, its last 16 characters are hexadecimal digits of either case*)
(* and the 3 characters before them are "::h": it writes the name without  *)
(* its last 19 characters in the role colour, then nothing more when       *)
(* strip_function_hash is set, else the 19-character suffix in the hash    *)
(* colour.  Every other name is written whole and unsplit.                 *)
\* the characters of a str: each a sequence of one or more bytes
RECURSIVE CharsOf(_)
CharsOf(b) ==
    IF b = <<>> THEN <<>>
    ELSE IF Len(b) >= 2 /\ b[2] \in ContinuationBytes
         THEN << <<b[1], b[2]>> >> \o CharsOf(SubSeq(b, 3, Len(b)))
         ELSE << <<b[1]>> >> \o CharsOf(Tail(b))

RECURSIVE Flatten(_)
Flatten(cs) == IF cs = <<>> THEN <<>> ELSE Head(cs) \o Flatten(Tail(cs))

NameOps(log) ==
    LET IsName(e) == e.op[1] = "set_color" \/ (Len(e.op) >= 2 /\ e.op[2] = "name")
    IN  Ops(SelectSeq(log, IsName))

C9_HashSuffixSplitExactly ==
    (IsSome(outcome) /\ IsSome(Unwrap(subject).name)) =>
        LET name == Unwrap(Unwrap(subject).name)
            cs == CharsOf(name)
            n == Len(cs)
            split == /\ n > 19
                     /\ \A i \in (n - 15)..n : Len(cs[i]) = 1 /\ cs[i][1] \in HexDigits
                     /\ SubSeq(cs, n - 18, n - 16) = << <<":">>, <<":">>, <<"h">> >>
            role == IF is_dependency_code(Unwrap(subject)) THEN "dependency_code"
                    ELSE "crate_code"
            hash == IF is_dependency_code(Unwrap(subject)) THEN "dependency_code_hash"
                    ELSE "crate_code_hash"
            head == Flatten(SubSeq(cs, 1, n - 19))
            tail == Flatten(SubSeq(cs, n - 18, n))
        IN  /\ Unwrap(outcome).status = "ok"
            /\ NameOps(Unwrap(outcome).log) =
                  IF split
                  THEN IF strip_function_hash
                       THEN << <<"set_color", role>>, <<"write", "name", head>>,
                               <<"writeln", "name", <<>>>> >>
                       ELSE << <<"set_color", role>>, <<"write", "name", head>>,
                               <<"set_color", hash>>, <<"writeln", "name", tail>> >>
                  ELSE << <<"set_color", role>>, <<"writeln", "name", name>> >>

(* C10: for a readable file of F lines and a target line L >= 1, the       *)
(* snippet holds the file's lines max(1, L-2) .. min(F, max(1, L-2) + 4),  *)
(* each labelled with its own line number: at most 5 lines, exactly 5 with *)
(* L third when L >= 3 and F >= L + 2, and only line L is highlighted.     *)
IsSrcOp(e) == e.op[1] = "writeln" /\ e.op[2] = "src"

SnippetNumbers(log) ==
    LET w == SelectSeq(log, IsSrcOp) IN [i \in 1..Len(w) |-> w[i].op[3]]

\* the line numbers written while the selected-line colour is set
Highlighted(log) ==
    {log[i].op[3] : i \in {j \in 2..Len(log) :
        IsSrcOp(log[j]) /\ log[j - 1].op = <<"set_color", "selected_src_ln">>}}

MaxInt(a, b) == IF a >= b THEN a ELSE b

C10_SnippetWindow ==
    (/\ IsSome(outcome)
     /\ IsSome(Unwrap(subject).frame.lineno)
     /\ Unwrap(subject).file.open = "ok"
     /\ Unwrap(subject).file.bad = 0
     /\ Unwrap(Unwrap(subject).frame.lineno) >= 1) =>
        LET L == Unwrap(Unwrap(subject).frame.lineno)
            F == Unwrap(subject).file.lines
            first == MaxInt(1, L - 2)
            last == Min(F, first + 4)
            log == Unwrap(outcome).log
            shown == SnippetNumbers(log)
        IN  /\ Unwrap(outcome).status = "ok"
            /\ shown = [i \in 1..MaxInt(0, last - first + 1) |-> first + i - 1]
            /\ Len(shown) <= 5
            /\ (L >= 3 /\ F >= L + 2) => (Len(shown) = 5 /\ shown[3] = L)
            /\ Highlighted(log) = {L} \cap Range(shown)
            /\ \A i \in 1..Len(log) :
                  IsSrcOp(log[i]) => (log[i].op[4] = ">" <=> log[i].op[3] = L)

C10_Witness ==
    /\ IsSome(outcome)
    /\ Unwrap(subject).file.open = "ok"
    /\ Unwrap(subject).file.bad = 0
    /\ Unwrap(subject).frame.lineno = Some(2)
    /\ Unwrap(subject).file.lines >= 5
    /\ SnippetNumbers(Unwrap(outcome).log) = <<1, 2, 3, 4, 5>>
    /\ Highlighted(Unwrap(outcome).log) = {2}

(* C11: at Full verbosity a frame whose source file does not exist gets no *)
(* snippet and no error, and rendering goes on with the next frames; any   *)
(* other failure to open or read the source file ends the render with that *)
(* error returned to the caller.                                           *)
\* the log position of the frame header a log position belongs to
HeaderOf(log, j) ==
    CHOOSE k \in 1..j : IsIndexOp(log[k]) /\ \A m \in (k + 1)..j : ~IsIndexOp(log[m])

\* the last line of the file that the snippet of line L reaches
SnippetEnd(L, F) == Min(F, MaxInt(1, L - 2) + 4)

\* opening the frame's file fails for another reason than its absence, or
\* reading it fails on a line
SourceFails(f) ==
    /\ IsSome(f.lineno) /\ IsSome(f.filename)
    /\ \/ FileOf(f).open = "denied"
       \/ /\ FileOf(f).open = "ok"
          /\ FileOf(f).bad \in 1..SnippetEnd(Unwrap(f.lineno), FileOf(f).lines)

C11_SourceFailures ==
    (result # "none" /\ current_verbosity(Printer) = Full) =>
        LET failing == {i \in 1..Len(frames) : SourceFails(frames[i])}
            upto == IF failing = {} THEN Len(frames) ELSE MinOf(failing)
        IN  /\ RenderedNumbers(out.log) = [i \in 1..upto |-> i]
            /\ \A j \in 1..Len(out.log) :
                  IsSrcOp(out.log[j]) =>
                      FileOf(frames[out.log[HeaderOf(out.log, j)].op[3]]).open = "ok"
            /\ IF failing = {} THEN result = "ok"
               ELSE result = "err" /\ out.err \in {"source", "read"}

(* C12: the hint block of print_panic_info by level.  As claimed: Minimal  *)
(* mentions only RUST_BACKTRACE=1; Medium and Full mention                 *)
(* COLORBT_SHOW_HIDDEN=1; RUST_BACKTRACE=full is mentioned only at Medium. *)
\* the record is of a print_panic_info call on a sink that does not fail
PanicInfoRecord ==
    /\ result # "none"
    /\ out.failAt = 0
    /\ Len(out.log) > 0
    /\ out.log[1].op = <<"set_color", "header">>

Mentions(log, variable) == \E i \in 1..Len(log) : log[i].op = <<"write", variable>>

\* the level in force, from the printer's fields
LevelInForce == IF is_panic_handler THEN verbosity ELSE lib_verbosity

C12_HintsAsClaimed ==
    PanicInfoRecord =>
        /\ Mentions(out.log, "RUST_BACKTRACE=1") <=> LevelInForce = Minimal
        /\ Mentions(out.log, "COLORBT_SHOW_HIDDEN=1") <=> LevelInForce \in {Medium, Full}
        /\ Mentions(out.log, "RUST_BACKTRACE=full") <=> LevelInForce = Medium

(* C12 as the code has it: RUST_BACKTRACE=full is mentioned at every level *)
(* below Full, so at Minimal too, after the RUST_BACKTRACE=1 hint.         *)
C12_HintsByLevel ==
    PanicInfoRecord =>
        /\ Mentions(out.log, "RUST_BACKTRACE=1") <=> LevelInForce = Minimal
        /\ Mentions(out.log, "COLORBT_SHOW_HIDDEN=1") <=> LevelInForce \in {Medium, Full}
        /\ Mentions(out.log, "RUST_BACKTRACE=full") <=> LevelInForce \in {Minimal, Medium}

C12_Witness ==
    /\ PanicInfoRecord
    /\ result = "ok"
    /\ LevelInForce = Minimal
    /\ Mentions(out.log, "RUST_BACKTRACE=1")
    /\ Mentions(out.log, "RUST_BACKTRACE=full")
    /\ ~Mentions(out.log, "COLORBT_SHOW_HIDDEN=1")

(* C13: print_panic_info renders the backtrace section iff the current     *)
(* verbosity is Medium or Full, and a frame's source snippet is rendered   *)
(* iff it is Full; the current verbosity is `verbosity` when the printer   *)
(* runs as a handler made by into_panic_handler, else `lib_verbosity`.     *)
HasHeader(log) == \E i \in 1..Len(log) : log[i].op = <<"writeln", "backtrace_header">>

\* the numbers of the frames that got a source snippet
FramesWithSnippet(log) ==
    {log[HeaderOf(log, j)].op[3] : j \in {k \in 1..Len(log) : IsSrcOp(log[k])}}

\* the frame's source can be shown: line and file known, file readable, not empty
SourceAvailable(f) ==
    /\ IsSome(f.lineno) /\ IsSome(f.filename)
    /\ FileOf(f).open = "ok" /\ FileOf(f).bad = 0
    /\ Unwrap(f.lineno) \in 1..FileOf(f).lines

LevelOfVariable(v) ==
    IF ~IsSome(v) THEN Minimal
    ELSE IF Unwrap(v).unicode /\ Unwrap(v).text = "full" THEN Full
    ELSE Medium

C14_VerbosityFromEnvironment ==
    IsSome(outcome) =>
        /\ verbosity = LevelOfVariable(Unwrap(subject).RUST_BACKTRACE)
        /\ verbosity \in {Minimal, Medium, Full}

(* C15: is_runtime_init_code is true for every frame whose symbol name     *)
(* starts with one of the fixed start-up prefixes, whether or not its      *)
(* source file is known, and for the frame matching the combined name and  *)
(* file marker; for every other frame, one without a name included, it is  *)
(* false.                                                                  *)
C15_RuntimeInitByNamePrefix ==
    IsSome(outcome) =>
        LET f == Unwrap(subject)
            by_prefix == /\ IsSome(f.name)
                         /\ \E x \in RuntimeInitSymPrefixes : StartsWith(Unwrap(f.name), x)
            by_marker == /\ f.name = Some(<<"{","{","c","l","o","s","u","r","e","}","}">>)
                         /\ f.filename = Some(<<"s","r","c","/","l","i","b","t","e","s","t","/","l","i","b",".","r","s">>)
        IN  Unwrap(outcome).runtime_init <=> (by_prefix \/ by_marker)

(* C16: in print_trace, when the filter steps only remove frames, the      *)
(* hidden-frames banners are exactly the maximal runs of omitted frame     *)
(* numbers: one before a kept frame whose number exceeds the previous kept *)
(* number (0 before the first) by more than 1, one after the last kept     *)
(* frame when it is below the frame count, each showing the length of its  *)
(* run; no banner shows 0 and no two banners are adjacent.                 *)
\* frames and banners in output order: <<"frame", n>> and <<"hidden", count>>
Events(log) ==
    LET IsEvent(e) == IsIndexOp(e) \/ IsBannerOp(e)
        w == SelectSeq(log, IsEvent)
    IN  [i \in 1..Len(w) |-> IF IsIndexOp(w[i]) THEN <<"frame", w[i].op[3]>>
                             ELSE <<"hidden", w[i].op[3]>>]

\* what the runs of numbers missing from `kept` (increasing, within 1..total) call for
RECURSIVE GapEvents(_, _, _)
GapEvents(kept, prev, total) ==
    IF kept = <<>>
    THEN IF prev < total THEN << <<"hidden", total - prev>> >> ELSE <<>>
    ELSE (IF Head(kept) - prev > 1 THEN << <<"hidden", Head(kept) - prev - 1>> >> ELSE <<>>)
         \o << <<"frame", Head(kept)>> >>
         \o GapEvents(Tail(kept), Head(kept), total)

OnlyRemoves == \A i \in 1..Len(filters) : filters[i] \in {"default", "retain"}

C16_BannersAreTheOmittedRuns ==
    (result = "ok" /\ OnlyRemoves /\ filtered_frames # <<>>) =>
        LET ev == Events(out.log)
        IN  /\ ev = GapEvents(filtered_frames, 0, Len(frames))
            /\ \A i \in 1..Len(ev) : ev[i][1] = "hidden" => ev[i][2] > 0
            /\ \A i \in 1..(Len(ev) - 1) : ~(ev[i][1] = "hidden" /\ ev[i + 1][1] = "hidden")

\* frame 2 of 3 is removed: one inner run, no leading and no trailing one
C16_Witness ==
    /\ result = "ok" /\ OnlyRemoves
    /\ Len(frames) = 3
    /\ filtered_frames = <<1, 3>>
    /\ Events(out.log) = << <<"frame", 1>>, <<"hidden", 1>>, <<"frame", 3>> >>

(* C17: when default_frame_filter runs as a later step, on a working set   *)
(* that an earlier step has reduced to a proper subsequence of the captured*)
(* frames, it keeps exactly the working-set frames strictly between the    *)
(* last post-panic frame of the working set and its first runtime-init     *)
(* frame; applying it again to its own result changes nothing.             *)
\* the elements of w strictly between positions lo and hi
Between(w, lo, hi) ==
    LET idx == {i \in 1..Len(w) : lo < i /\ i < hi}
    IN  SelectSeq(w, LAMBDA r : \E i \in idx : w[i] = r)

C17_DefaultFilterAsLaterStep ==
    (result # "none" /\ env_show_hidden \notin Affirmative
        /\ filters = <<"retain", "default">>) =>
        LET all == [i \in 1..Len(frames) |-> i]
            w == ApplyFilter("retain", frames, all)
            pp == {i \in 1..Len(w) : is_post_panic_code(frames[w[i]])}
            rt == {i \in 1..Len(w) : is_runtime_init_code(frames[w[i]])}
            lo == IF pp = {} THEN 0 ELSE MaxOf(pp)
            hi == IF rt = {} THEN Len(w) + 1 ELSE MinOf(rt)
        IN  Len(w) < Len(frames) =>
                /\ filtered_frames = Between(w, lo, hi)
                /\ default_frame_filter(frames, filtered_frames) = filtered_frames

(* C18: under fair scheduling every thread that enters the installed       *)
(* handler eventually takes the output lock, finishes its render (with or  *)
(* without the error diagnostic) and releases the lock: the invocation     *)
(* returns, and the lock is not left held by it.                           *)
C18_EveryHandlerInvocationReturns ==
    \A t \in HandlerThreads :
        (pc[t] = "hook") ~> (pc[t] = "returned" /\ lock # t)

(* C19: for every line number a frame can carry, 0 included, the start-line *)
(* computation lineno - min(2, lineno - 1) and the skip count               *)
(* start_line - 1 do not underflow, and 1 <= start_line <= lineno.          *)
C19_StartLineWithinRange ==
    (/\ IsSome(outcome)
     /\ IsSome(Unwrap(subject).frame.lineno)
     /\ Unwrap(subject).file.open = "ok") =>
        LET lineno == Unwrap(Unwrap(subject).frame.lineno)
            start_line == start_line_of(lineno)
            skip == SubUsize(start_line.val, 1)
        IN  /\ ~start_line.ovf
            /\ ~skip.ovf
            /\ 1 <= start_line.val
            /\ start_line.val <= lineno
            /\ Unwrap(outcome).status # "panic"

====
